---- MODULE Spec2Model ----
(***************************************************************************)
(* Model of the puzzle solvers of scripts/play-games.py and of the webhook *)
(* handler of examples/python-webhook/agent.py.                            *)
(*                                                                         *)
(* Text is a sequence of one-character strings.  A Python call either      *)
(* returns a value or raises: every modelled function yields a record      *)
(* whose field exc is "none" for a normal return and the exception's name  *)
(* otherwise.  Floating-point values are modelled as exact rationals       *)
(* <<n, d>> in lowest terms with d > 0.                                    *)
(***************************************************************************)
EXTENDS Integers, Sequences, FiniteSets, TLC

VARIABLES
    puzzle,     \* the Puzzle dict handed to solve_puzzle
    answer,     \* what solve_puzzle returned (or the exception it raised)
    called,     \* the solvers solve_puzzle invoked, in order
    tokens,     \* the token list handed to the parser
    parsed,     \* the result of _parse_factor/_parse_term/_parse_expr at a position
    pc,         \* "ready" before the call, "done" after it
    WEBHOOK_SECRET, \* the secret the webhook agent read from its environment
    now_ms,     \* the agent's clock when the request is handled, in ms
    request,    \* the POST /webhook request: its body and headers
    response    \* what the webhook handler answered

webvars == <<WEBHOOK_SECRET, now_ms, request, response>>
vars == <<puzzle, answer, called, tokens, parsed, pc, webvars>>

(***************************************************************************)
(* Bounds of the model.                                                    *)
(***************************************************************************)
MaxTokens == 4      \* arbitrary token lists have at most this many tokens
MaxWFTokens == 7    \* well-formed token lists have at most this many tokens
MaxExprLen == 4     \* characters between "What is " and the end of a math question
MaxNum == 8         \* the numbers of a sequence question are 0..MaxNum
MaxSeqLen == 4      \* a sequence question lists at most this many numbers
MaxRot == 2         \* a scrambled word is a dictionary word rotated by 1..MaxRot

(***************************************************************************)
(* Generic helpers.                                                        *)
(***************************************************************************)
Abs(x) == IF x < 0 THEN -x ELSE x

RECURSIVE Gcd(_, _)
Gcd(a, b) == IF b = 0 THEN a ELSE Gcd(b, a % b)

(***************************************************************************)
(* Numeric values of the evaluator: rationals <<n, d>>, d > 0, gcd(n,d)=1. *)
(***************************************************************************)
Norm(n, d) ==
    LET s == IF d < 0 THEN -1 ELSE 1
        g == Gcd(Abs(n), Abs(d))
    IN  <<(s * n) \div g, (s * d) \div g>>

Rat(n) == <<n, 1>>
RAdd(x, y) == Norm(x[1] * y[2] + y[1] * x[2], x[2] * y[2])
RSub(x, y) == Norm(x[1] * y[2] - y[1] * x[2], x[2] * y[2])
RMul(x, y) == Norm(x[1] * y[1], x[2] * y[2])
RDiv(x, y) == Norm(x[1] * y[2], x[2] * y[1])
RIsZero(x) == x[1] = 0

(***************************************************************************)
(* Tokens (_tokenize's output): a float, or one of the symbols + - * / ( ) *)
(***************************************************************************)
NumTok(v) == [isfloat |-> TRUE, sym |-> "", val |-> v]
SymTok(s) == [isfloat |-> FALSE, sym |-> s, val |-> Rat(0)]

\* What a parse function yields: (val, pos) or an exception.
Return(v, p) == [exc |-> "none", val |-> v, pos |-> p]
Raise(e) == [exc |-> e, val |-> Rat(0), pos |-> -1]

(***************************************************************************)
(* The recursive-descent evaluator.  Positions are 0-based as in the       *)
(* source, so tokens[pos] of the source is tokens[pos + 1] here.           *)
(***************************************************************************)
RECURSIVE _parse_expr(_, _), _parse_term(_, _), _parse_factor(_, _)
RECURSIVE _parse_expr_loop(_, _, _), _parse_term_loop(_, _, _)

\* A division that yields 0 for a zero divisor instead of raising.
TrueDivide_total(val, right) ==
    IF RIsZero(right) THEN Return(Rat(0), 0)
    ELSE Return(RDiv(val, right), 0)

\* val /= right : Python raises ZeroDivisionError for a zero divisor.
TrueDivide(val, right) ==
    IF RIsZero(right) THEN Raise("ZeroDivisionError")
    ELSE Return(RDiv(val, right), 0)

\* _parse_factor with the position left where it was on an unexpected token.
_parse_factor_stuck(toks, pos) ==
    IF pos >= Len(toks) THEN Raise("IndexError")
    ELSE IF toks[pos + 1].sym = "(" THEN
        LET r == _parse_expr(toks, pos + 1) IN
        IF r.exc # "none" THEN r
        ELSE IF r.pos < Len(toks) /\ toks[r.pos + 1].sym = ")"
             THEN Return(r.val, r.pos + 1)
             ELSE Return(r.val, r.pos)
    ELSE IF toks[pos + 1].isfloat THEN Return(toks[pos + 1].val, pos + 1)
    ELSE Return(Rat(0), pos)

\* def _parse_factor(tokens, pos)
_parse_factor(toks, pos) ==
    IF pos >= Len(toks) THEN Raise("IndexError")
    ELSE IF toks[pos + 1].sym = "(" THEN
        LET r == _parse_expr(toks, pos + 1) IN
        IF r.exc # "none" THEN r
        ELSE IF r.pos < Len(toks) /\ toks[r.pos + 1].sym = ")"
             THEN Return(r.val, r.pos + 1)
             ELSE Return(r.val, r.pos)
    ELSE IF toks[pos + 1].isfloat THEN Return(toks[pos + 1].val, pos + 1)
    ELSE Return(Rat(0), pos + 1)

\* The while loop of _parse_term, entered with the current (val, pos).
_parse_term_loop(toks, val, pos) ==
    IF pos < Len(toks) /\ toks[pos + 1].sym \in {"*", "/"} THEN
        LET op == toks[pos + 1].sym
            r == _parse_factor(toks, pos + 1)
        IN  IF r.exc # "none" THEN r
            ELSE IF op = "*" THEN _parse_term_loop(toks, RMul(val, r.val), r.pos)
            ELSE LET q == TrueDivide(val, r.val) IN
                 IF q.exc # "none" THEN q
                 ELSE _parse_term_loop(toks, q.val, r.pos)
    ELSE Return(val, pos)

\* def _parse_term(tokens, pos)
_parse_term(toks, pos) ==
    LET f == _parse_factor(toks, pos) IN
    IF f.exc # "none" THEN f ELSE _parse_term_loop(toks, f.val, f.pos)

\* The loop of _parse_expr taking the whole rest as the right operand
\* (operators of equal precedence grouped from the right).
_parse_expr_loop_right(toks, val, pos) ==
    IF pos < Len(toks) /\ toks[pos + 1].sym \in {"+", "-"} THEN
        LET op == toks[pos + 1].sym
            r == _parse_expr(toks, pos + 1)
        IN  IF r.exc # "none" THEN r
            ELSE IF op = "+" THEN Return(RAdd(val, r.val), r.pos)
            ELSE Return(RSub(val, r.val), r.pos)
    ELSE Return(val, pos)

\* The while loop of _parse_expr, entered with the current (val, pos).
_parse_expr_loop(toks, val, pos) ==
    IF pos < Len(toks) /\ toks[pos + 1].sym \in {"+", "-"} THEN
        LET op == toks[pos + 1].sym
            r == _parse_term(toks, pos + 1)
        IN  IF r.exc # "none" THEN r
            ELSE IF op = "+" THEN _parse_expr_loop(toks, RAdd(val, r.val), r.pos)
            ELSE _parse_expr_loop(toks, RSub(val, r.val), r.pos)
    ELSE Return(val, pos)

\* def _parse_expr(tokens, pos)
_parse_expr(toks, pos) ==
    LET t == _parse_term(toks, pos) IN
    IF t.exc # "none" THEN t ELSE _parse_expr_loop(toks, t.val, t.pos)

(***************************************************************************)
(* Token lists the parser is run on.                                       *)
(***************************************************************************)
TokenNumbers == {0, 2, 3, 4, 8}
TokenSymbols == {"+", "-", "*", "/", "(", ")"}
TokenAlphabet ==
    {NumTok(Rat(n)) : n \in TokenNumbers} \cup {SymTok(s) : s \in TokenSymbols}

IsBinOp(tok) == tok.sym \in {"+", "-", "*", "/"}
IsOperandStart(tok) == tok.isfloat \/ tok.sym = "("
IsOperandEnd(tok) == tok.isfloat \/ tok.sym = ")"

\* Nesting depth in front of token i: '(' minus ')' among t[1..i-1].
Depth(t, i) ==
    Cardinality({j \in 1..(i - 1) : t[j].sym = "("})
    - Cardinality({j \in 1..(i - 1) : t[j].sym = ")"})

\* The language of  expr := term (('+'|'-') term)*,
\* term := factor (('*'|'/') factor)*, factor := '(' expr ')' | number :
\* operands and operators alternate and the parentheses balance.
WellFormed(t) ==
    /\ Len(t) > 0
    /\ IsOperandStart(t[1])
    /\ IsOperandEnd(t[Len(t)])
    /\ \A i \in 1..(Len(t) - 1) :
          IF IsOperandEnd(t[i])
          THEN IsBinOp(t[i + 1]) \/ t[i + 1].sym = ")"
          ELSE IsOperandStart(t[i + 1])
    /\ \A i \in 1..Len(t) : Depth(t, i) >= (IF t[i].sym = ")" THEN 1 ELSE 0)
    /\ Depth(t, Len(t) + 1) = 0

\* t with <<a, b>> inserted after position i.
InsertAfter(t, i, a, b) ==
    SubSeq(t, 1, i) \o <<a, b>> \o SubSeq(t, i + 1, Len(t))

\* t with the token at position i put in parentheses.
WrapAt(t, i) ==
    SubSeq(t, 1, i - 1) \o <<SymTok("("), t[i], SymTok(")")>>
        \o SubSeq(t, i + 1, Len(t))

\* The shapes of the well-formed lists of exactly k tokens (k odd), every
\* number written 0 and every operator '+': a number, then repeatedly
\* "op number" added after an operand, or a number parenthesised.
RECURSIVE WFLayer(_)
WFLayer(k) ==
    IF k = 1 THEN {<<NumTok(Rat(0))>>}
    ELSE LET prev == WFLayer(k - 2) IN
         {InsertAfter(x[1], x[2], SymTok("+"), NumTok(Rat(0))) :
              x \in {y \in prev \X (1..(k - 2)) : IsOperandEnd(y[1][y[2]])}}
         \cup
         {WrapAt(x[1], x[2]) :
              x \in {y \in prev \X (1..(k - 2)) : y[1][y[2]].isfloat}}

WFShapes == UNION {WFLayer(k) : k \in {j \in 1..MaxWFTokens : j % 2 = 1}}

NumCount(t) == Cardinality({j \in 1..Len(t) : t[j].isfloat})
OpCount(t) == Cardinality({j \in 1..Len(t) : IsBinOp(t[j])})

\* The shape with its i-th number replaced by ns[i] and its i-th operator by os[i].
Fill(shape, ns, os) ==
    [i \in 1..Len(shape) |->
        IF shape[i].isfloat
        THEN NumTok(Rat(ns[Cardinality({j \in 1..i : shape[j].isfloat})]))
        ELSE IF IsBinOp(shape[i])
        THEN SymTok(os[Cardinality({j \in 1..i : IsBinOp(shape[j])})])
        ELSE shape[i]]

\* Any list of k tokens.
AnyTokenLists(k) == [1..k -> TokenAlphabet]

(***************************************************************************)
(* Standard infix arithmetic on a well-formed token list, defined without  *)
(* reference to the parser: split at the last operator of lowest           *)
(* precedence outside all parentheses.  def is FALSE when a divisor is 0.  *)
(***************************************************************************)
SetMax(S) == CHOOSE m \in S : \A x \in S : x <= m

TopLevelOps(t, syms) ==
    {i \in 1..Len(t) : t[i].sym \in syms /\ Depth(t, i) = 0}

RECURSIVE InfixValue(_)
InfixValue(t) ==
    LET adds == TopLevelOps(t, {"+", "-"})
        muls == TopLevelOps(t, {"*", "/"})
        i == IF adds # {} THEN SetMax(adds) ELSE SetMax(muls)
    IN  IF adds = {} /\ muls = {} THEN
            IF Len(t) = 1 THEN [def |-> TRUE, val |-> t[1].val]
            ELSE InfixValue(SubSeq(t, 2, Len(t) - 1))
        ELSE LET l == InfixValue(SubSeq(t, 1, i - 1))
                 r == InfixValue(SubSeq(t, i + 1, Len(t)))
             IN  IF ~l.def \/ ~r.def THEN [def |-> FALSE, val |-> Rat(0)]
                 ELSE IF t[i].sym = "+" THEN [def |-> TRUE, val |-> RAdd(l.val, r.val)]
                 ELSE IF t[i].sym = "-" THEN [def |-> TRUE, val |-> RSub(l.val, r.val)]
                 ELSE IF t[i].sym = "*" THEN [def |-> TRUE, val |-> RMul(l.val, r.val)]
                 ELSE IF RIsZero(r.val) THEN [def |-> FALSE, val |-> Rat(0)]
                 ELSE [def |-> TRUE, val |-> RDiv(l.val, r.val)]

(***************************************************************************)
(* Running the parser: one call of a parse function at a position.         *)
(***************************************************************************)
NoPuzzle == [none |-> TRUE]
NoAnswer == [exc |-> "", val |-> <<>>, caught |-> ""]
NoParse == [fn |-> "", pos |-> -1, res |-> Raise("")]
NoRequest == [none |-> TRUE]
NoResponse == [none |-> TRUE]

\* The webhook agent is not part of the run.
NoWebhook ==
    /\ WEBHOOK_SECRET = <<>>
    /\ now_ms = 0
    /\ request = NoRequest
    /\ response = NoResponse

InitParse ==
    /\ \/ \E k \in 0..MaxTokens : tokens \in AnyTokenLists(k)
       \/ \E shape \in WFShapes :
             \E ns \in [1..NumCount(shape) -> TokenNumbers] :
                \E os \in [1..OpCount(shape) -> {"+", "-", "*", "/"}] :
                   tokens = Fill(shape, ns, os)
    /\ parsed = NoParse
    /\ puzzle = NoPuzzle
    /\ answer = NoAnswer
    /\ called = <<>>
    /\ pc = "ready"
    /\ NoWebhook

ParseFactor ==
    /\ pc = "ready"
    /\ \E pos \in 0..Len(tokens) :
          parsed' = [fn |-> "factor", pos |-> pos, res |-> _parse_factor(tokens, pos)]
    /\ pc' = "done"
    /\ UNCHANGED <<puzzle, answer, called, tokens, webvars>>

ParseTerm ==
    /\ pc = "ready"
    /\ \E pos \in 0..Len(tokens) :
          parsed' = [fn |-> "term", pos |-> pos, res |-> _parse_term(tokens, pos)]
    /\ pc' = "done"
    /\ UNCHANGED <<puzzle, answer, called, tokens, webvars>>

ParseExpr ==
    /\ pc = "ready"
    /\ \E pos \in 0..Len(tokens) :
          parsed' = [fn |-> "expr", pos |-> pos, res |-> _parse_expr(tokens, pos)]
    /\ pc' = "done"
    /\ UNCHANGED <<puzzle, answer, called, tokens, webvars>>

NextParse == ParseFactor \/ ParseTerm \/ ParseExpr

SpecParse == InitParse /\ [][NextParse]_vars

\* C2: on a well-formed token list without a zero divisor, _parse_expr(tokens, 0)
\* consumes every token and returns the value of standard infix arithmetic.
C2_ParseIsInfixArithmetic ==
    (/\ pc = "done" /\ parsed.fn = "expr" /\ parsed.pos = 0
     /\ WellFormed(tokens) /\ InfixValue(tokens).def)
    => parsed.res = Return(InfixValue(tokens).val, Len(tokens))

\* Witness of C2: (2 + 3) * 4 parsed from position 0 gives 20.
C2_Witness ==
    /\ pc = "done" /\ parsed.fn = "expr" /\ parsed.pos = 0
    /\ tokens = <<SymTok("("), NumTok(Rat(2)), SymTok("+"), NumTok(Rat(3)),
                  SymTok(")"), SymTok("*"), NumTok(Rat(4))>>
    /\ parsed.res = Return(Rat(20), 7)

\* The parse function a Parse action ran.
ParseFn(fn, toks, pos) ==
    IF fn = "factor" THEN _parse_factor(toks, pos)
    ELSE IF fn = "term" THEN _parse_term(toks, pos)
    ELSE _parse_expr(toks, pos)

\* A call from pos < len(tokens) that returns, returns p with pos < p <= len(tokens).
ParserProgress ==
    (pc = "done" /\ parsed.res.exc = "none")
    => /\ parsed.pos < Len(tokens)
       /\ parsed.pos < parsed.res.pos
       /\ parsed.res.pos <= Len(tokens)

\* The tokens at or after the returned position play no part in the result.
ParserIgnoresRest ==
    (pc = "done" /\ parsed.res.exc = "none")
    => ParseFn(parsed.fn, SubSeq(tokens, 1, parsed.res.pos), parsed.pos) = parsed.res

\* C9 as stated: progress, and reading a factor at pos = len(tokens) (IndexError)
\* is the only abnormal exit of the parse functions.
C9_OnlyIndexError ==
    /\ ParserProgress
    /\ (pc = "done" /\ parsed.res.exc # "none")
       => /\ parsed.res.exc = "IndexError"
          /\ \/ parsed.pos = Len(tokens)
             \/ IsBinOp(tokens[Len(tokens)])
             \/ tokens[Len(tokens)].sym = "("

\* C9 amended: progress; the tokens from the returned position on are ignored;
\* the abnormal exits are reading a factor at pos = len(tokens) (IndexError)
\* and dividing by a right operand that evaluates to zero (ZeroDivisionError).
C9_ProgressAndExits ==
    /\ ParserProgress
    /\ ParserIgnoresRest
    /\ (pc = "done" /\ parsed.res.exc # "none")
       => \/ /\ parsed.res.exc = "IndexError"
             /\ \/ parsed.pos = Len(tokens)
                \/ IsBinOp(tokens[Len(tokens)])
                \/ tokens[Len(tokens)].sym = "("
          \/ /\ parsed.res.exc = "ZeroDivisionError"
             /\ \E i \in (parsed.pos + 1)..(Len(tokens) - 1) :
                   /\ tokens[i].sym = "/"
                   /\ ~(tokens[i + 1].isfloat /\ ~RIsZero(tokens[i + 1].val))

\* Witness of C9: a leading '-' is read as the factor 0 and the parse of the
\* expression stops there, in front of the tokens that follow.
C9_Witness ==
    /\ pc = "done" /\ parsed.fn = "expr" /\ parsed.pos = 0
    /\ Len(tokens) >= 2 /\ tokens[1].sym = "-"
    /\ parsed.res = Return(Rat(0), 1)

(***************************************************************************)
(* Text: sequences of one-character strings.                               *)
(***************************************************************************)
DigitChars == <<"0", "1", "2", "3", "4", "5", "6", "7", "8", "9">>
IsDigit(c) == \E i \in 1..10 : DigitChars[i] = c
DigitVal(c) == (CHOOSE i \in 1..10 : DigitChars[i] = c) - 1
IsSpace(c) == c \in {" ", "\t", "\n", "\r"}

SetMin(S) == CHOOSE m \in S : \A x \in S : m <= x

RECURSIVE Pow10(_)
Pow10(k) == IF k = 0 THEN 1 ELSE 10 * Pow10(k - 1)

\* The value of a run of decimal digits (leading zeros count for nothing).
RECURSIVE DecDigits(_)
DecDigits(s) ==
    IF s = <<>> THEN 0
    ELSE DecDigits(SubSeq(s, 1, Len(s) - 1)) * 10 + DigitVal(s[Len(s)])

DecVal(s) ==
    LET nonzero == {i \in 1..Len(s) : s[i] # "0"} IN
    IF nonzero = {} THEN 0 ELSE DecDigits(SubSeq(s, SetMin(nonzero), Len(s)))

\* str(n) for an int n.
RECURSIVE NatStr(_)
NatStr(n) ==
    IF n < 10 THEN <<DigitChars[n + 1]>>
    ELSE NatStr(n \div 10) \o <<DigitChars[(n % 10) + 1]>>

IntStr(n) == IF n < 0 THEN <<"-">> \o NatStr(-n) ELSE NatStr(n)

\* s.strip()
Strip(s) ==
    LET keep == {i \in 1..Len(s) : ~IsSpace(s[i])} IN
    IF keep = {} THEN <<>> ELSE SubSeq(s, SetMin(keep), SetMax(keep))

\* s.replace(a, b) for single characters a and b.
Replace(s, a, b) == [i \in 1..Len(s) |-> IF s[i] = a THEN b ELSE s[i]]

\* Whether the literal lit stands in text at position i (1-based).
LiteralAt(text, lit, i) ==
    /\ i >= 1
    /\ i + Len(lit) - 1 <= Len(text)
    /\ SubSeq(text, i, i + Len(lit) - 1) = lit

\* What a regular-expression search yields: the group it captured, if any.
Match(g) == [found |-> TRUE, group |-> g]
NoMatch == [found |-> FALSE, group |-> <<>>]

(***************************************************************************)
(* solve_math and its tokenizer.                                           *)
(***************************************************************************)
WhatIs == <<"W", "h", "a", "t", " ", "i", "s", " ">>

\* re.search(r'What is (.+?)\?', question): the leftmost "What is " that is
\* followed by at least one character other than a newline and then a '?';
\* the lazy group ends in front of the first such '?'.
SearchWhatIs(question) ==
    LET Ends(i) ==
            {j \in (i + Len(WhatIs) + 1)..Len(question) :
                /\ question[j] = "?"
                /\ \A k \in (i + Len(WhatIs))..(j - 1) : question[k] # "\n"}
        starts == {i \in 1..Len(question) :
                      LiteralAt(question, WhatIs, i) /\ Ends(i) # {}}
    IN  IF starts = {} THEN NoMatch
        ELSE LET i == SetMin(starts) IN
             Match(SubSeq(question, i + Len(WhatIs), SetMin(Ends(i)) - 1))

\* re.match(r'^[\d\s+\-*/().]+$', expr)
SafeChars(expr) ==
    /\ Len(expr) > 0
    /\ \A i \in 1..Len(expr) :
          \/ IsDigit(expr[i])
          \/ IsSpace(expr[i])
          \/ expr[i] \in {"+", "-", "*", "/", "(", ")", "."}

\* float(s) for a run s of digits and dots: a ValueError unless s holds at
\* most one dot and at least one digit.
ParseFloat(s) ==
    LET dots == {k \in 1..Len(s) : s[k] = "."}
        digits == SelectSeq(s, IsDigit)
    IN  IF Cardinality(dots) > 1 \/ digits = <<>> THEN Raise("ValueError")
        ELSE LET frac == IF dots = {} THEN 0 ELSE Len(s) - SetMin(dots) IN
             Return(Norm(DecVal(digits), Pow10(frac)), 0)

\* The while loop of _tokenize, entered at index i (0-based) with the
\* tokens collected so far.
RECURSIVE _tokenize_loop(_, _, _)
_tokenize_loop(expr, i, toks) ==
    IF i >= Len(expr) THEN [exc |-> "none", val |-> toks]
    ELSE IF IsSpace(expr[i + 1]) THEN _tokenize_loop(expr, i + 1, toks)
    ELSE IF IsDigit(expr[i + 1]) \/ expr[i + 1] = "." THEN
        LET stops == {j \in (i + 1)..Len(expr) :
                         j = Len(expr)
                         \/ ~(IsDigit(expr[j + 1]) \/ expr[j + 1] = ".")}
            j == SetMin(stops)
            f == ParseFloat(SubSeq(expr, i + 1, j))
        IN  IF f.exc # "none" THEN [exc |-> f.exc, val |-> <<>>]
            ELSE _tokenize_loop(expr, j, Append(toks, NumTok(f.val)))
    ELSE IF expr[i + 1] \in {"+", "-", "*", "/", "(", ")"} THEN
        _tokenize_loop(expr, i + 1, Append(toks, SymTok(expr[i + 1])))
    ELSE _tokenize_loop(expr, i + 1, toks)

\* def _tokenize(expr)
_tokenize(expr) == _tokenize_loop(expr, 0, <<>>)

\* int(x): truncation towards zero.
Trunc(x) == IF x[1] < 0 THEN -((-x[1]) \div x[2]) ELSE x[1] \div x[2]

\* The hundredths of round(|x|, 2): to the nearest, a tie to the even one.
RoundHundredths(x) ==
    LET n == Abs(x[1]) * 100
        q == n \div x[2]
        r == n % x[2]
    IN  IF 2 * r > x[2] \/ (2 * r = x[2] /\ q % 2 = 1) THEN q + 1 ELSE q

\* str(round(x, 2)) for a float x that is no integer: the shortest decimal,
\* which has one or two digits after the point.
Round2Str(x) ==
    LET h == RoundHundredths(x)
        frac == IF h % 10 = 0 THEN <<DigitChars[((h \div 10) % 10) + 1]>>
                ELSE <<DigitChars[((h \div 10) % 10) + 1], DigitChars[(h % 10) + 1]>>
    IN  (IF x[1] < 0 THEN <<"-">> ELSE <<>>) \o NatStr(h \div 100) \o <<".">> \o frac

\* str(int(result)) if float(result) == int(result) else str(round(result, 2))
FormatResult(x) == IF x[2] = 1 THEN IntStr(x[1]) ELSE Round2Str(x)

\* What a solver yields: the answer string, or the exception it raised;
\* caught names the exception a solver's own except clause swallowed.
Answer(text) == [exc |-> "none", val |-> text, caught |-> "none"]
Fallback(text, e) == [exc |-> "none", val |-> text, caught |-> e]
Raises(e) == [exc |-> e, val |-> <<>>, caught |-> "none"]

\* def solve_math(question)
solve_math(question) ==
    LET match == SearchWhatIs(question)
        expr == Replace(Replace(Strip(match.group), "×", "*"), "÷", "/")
    IN  IF match.found /\ SafeChars(expr) THEN
            LET toks == _tokenize(expr) IN
            IF toks.exc # "none" THEN Fallback(<<"0">>, toks.exc)
            ELSE LET result == _parse_expr(toks.val, 0) IN
                 IF result.exc # "none" THEN Fallback(<<"0">>, result.exc)
                 ELSE Answer(FormatResult(result.val))
        ELSE Answer(<<"0">>)

(***************************************************************************)
(* Python ints of any size: <<h, n>> stands for h * 10^BigDigits + n, with *)
(* n far smaller than 10^BigDigits.  10^BigDigits lies above the largest   *)
(* float (about 1.8 * 10^308), so an int with h # 0 does not convert to a  *)
(* float: int / int and int * float raise OverflowError for it.            *)
(***************************************************************************)
BigDigits == 400

Small(n) == <<0, n>>
IAdd(a, b) == <<a[1] + b[1], a[2] + b[2]>>
ISub(a, b) == <<a[1] - b[1], a[2] - b[2]>>
IIsZero(a) == a = <<0, 0>>

\* int(s) for a run s of decimal digits.
IntOfDigits(s) ==
    IF Len(s) <= BigDigits THEN Small(DecVal(s))
    ELSE <<DecVal(SubSeq(s, 1, Len(s) - BigDigits)),
           DecVal(SubSeq(s, Len(s) - BigDigits + 1, Len(s)))>>

Repeat(c, k) == [i \in 1..k |-> c]

\* The decimal digits of n, padded with zeros on the left to width w.
Padded(n, w) == Repeat("0", w - Len(NatStr(n))) \o NatStr(n)

\* str(a) for an int a.
RECURSIVE PyIntStr(_)
PyIntStr(a) ==
    IF a[1] = 0 THEN IntStr(a[2])
    ELSE IF a[1] < 0 THEN <<"-">> \o PyIntStr(<<-a[1], -a[2]>>)
    ELSE IF a[2] >= 0 THEN NatStr(a[1]) \o Padded(a[2], BigDigits)
    ELSE (IF a[1] = 1 THEN <<>> ELSE NatStr(a[1] - 1))
         \o Repeat("9", BigDigits - 9) \o Padded(Pow10(9) + a[2], 9)

\* a / b for ints a and b # 0: the float nearest the quotient, 0.0 when it
\* is too small for a float, an OverflowError when it is too large.
IntTrueDivide(a, b) ==
    IF a[1] # 0 /\ b[1] = 0 THEN Raise("OverflowError")
    ELSE IF a[1] = 0 /\ b[1] # 0 THEN Return(Rat(0), 0)
    ELSE IF a[1] # 0 THEN Return(Norm(a[1], b[1]), 0)
    ELSE Return(Norm(a[2], b[2]), 0)

\* a * r for an int a and a float r: a is converted to a float first.
IntTimesFloat(a, r) ==
    IF a[1] # 0 THEN Raise("OverflowError")
    ELSE Return(RMul(Rat(a[2]), r), 0)

\* round(r, 6) for a float r >= 0, in millionths: to the nearest, a tie to
\* the even one.
Round6(x) ==
    LET n == x[1] * 1000000
        q == n \div x[2]
        r == n % x[2]
    IN  IF 2 * r > x[2] \/ (2 * r = x[2] /\ q % 2 = 1) THEN q + 1 ELSE q

(***************************************************************************)
(* solve_logic.                                                            *)
(***************************************************************************)
WhatComesNext ==
    <<"W", "h", "a", "t", " ", "c", "o", "m", "e", "s", " ", "n", "e", "x", "t", "?">>

IsSeqChar(c) == IsDigit(c) \/ IsSpace(c) \/ c \in {",", "?"}

\* The end (inclusive) of the longest run of characters satisfying P(_) that
\* starts at position i; i - 1 when there is none.
RunEnd(text, i, P(_)) ==
    SetMin({j \in (i - 1)..Len(text) : j = Len(text) \/ ~P(text[j + 1])})

\* re.search(r'What comes next\?\s*([\d,\s?]+)', question): after the
\* literal, \s* takes the whole run of whitespace and the group the run of
\* digits, commas, whitespace and '?' behind it; when no such character
\* follows the whitespace, \s* gives its last character back to the group.
SearchWhatComesNext(question) ==
    LET After(i) == i + Len(WhatComesNext)
        WsEnd(i) == RunEnd(question, After(i), IsSpace)
        GroupEnd(i) == RunEnd(question, WsEnd(i) + 1, IsSeqChar)
        Matches(i) ==
            /\ LiteralAt(question, WhatComesNext, i)
            /\ (GroupEnd(i) > WsEnd(i) \/ WsEnd(i) >= After(i))
        starts == {i \in 1..Len(question) : Matches(i)}
    IN  IF starts = {} THEN NoMatch
        ELSE LET i == SetMin(starts) IN
             IF GroupEnd(i) > WsEnd(i)
             THEN Match(SubSeq(question, WsEnd(i) + 1, GroupEnd(i)))
             ELSE Match(<<question[WsEnd(i)]>>)

\* s.split(',')
RECURSIVE SplitCommas(_)
SplitCommas(s) ==
    LET commas == {i \in 1..Len(s) : s[i] = ","} IN
    IF commas = {} THEN <<s>>
    ELSE LET c == SetMin(commas) IN
         <<SubSeq(s, 1, c - 1)>> \o SplitCommas(SubSeq(s, c + 1, Len(s)))

\* s.isdigit()
IsDigits(s) == Len(s) > 0 /\ \A i \in 1..Len(s) : IsDigit(s[i])

\* nums = [int(n.strip()) for n in raw.split(',') if n.strip().isdigit()]
ExtractNums(question) ==
    LET match == SearchWhatComesNext(question)
        pieces == SplitCommas(Strip(match.group))
        stripped == [i \in 1..Len(pieces) |-> Strip(pieces[i])]
        kept == SelectSeq(stripped, IsDigits)
    IN  IF match.found THEN [i \in 1..Len(kept) |-> IntOfDigits(kept[i])]
        ELSE <<>>

IsFib(nums) == \A i \in 3..Len(nums) : nums[i] = IAdd(nums[i - 1], nums[i - 2])
Diffs(nums) == [i \in 1..(Len(nums) - 1) |-> ISub(nums[i + 1], nums[i])]
Range(f) == {f[i] : i \in DOMAIN f}

\* The geometric rule (lines 183-186): the answer it returns, the exception
\* it raises, or exc = "skip" when the rule does not apply.
GeometricRule(nums) ==
    IF \E i \in 1..(Len(nums) - 1) : IIsZero(nums[i]) THEN Raise("skip")
    ELSE LET ratios == [i \in 1..(Len(nums) - 1) |->
                            IntTrueDivide(nums[i + 1], nums[i])]
         IN  IF \E i \in DOMAIN ratios : ratios[i].exc # "none"
             THEN Raise("OverflowError")
             ELSE IF Cardinality({Round6(ratios[i].val) : i \in DOMAIN ratios}) = 1
             THEN IntTimesFloat(nums[Len(nums)], ratios[1].val)
             ELSE Raise("skip")

\* The rules of solve_logic with the arithmetic rule tried before the
\* Fibonacci-like one.
NextTerm_arithmetic_first(nums) ==
    LET n == Len(nums)
        diffs == Diffs(nums)
        diff2 == Diffs(diffs)
        geo == GeometricRule(nums)
    IN  IF n < 3 THEN Answer(<<"0">>)
        ELSE IF Cardinality(Range(diffs)) = 1
             THEN Answer(PyIntStr(IAdd(nums[n], diffs[1])))
        ELSE IF IsFib(nums) THEN Answer(PyIntStr(IAdd(nums[n], nums[n - 1])))
        ELSE IF geo.exc = "OverflowError" THEN Raises("OverflowError")
        ELSE IF geo.exc = "none" THEN Answer(IntStr(Trunc(geo.val)))
        ELSE IF Len(diff2) >= 1 /\ Cardinality(Range(diff2)) = 1
             THEN Answer(PyIntStr(IAdd(nums[n], IAdd(diffs[n - 1], diff2[1]))))
        ELSE Answer(PyIntStr(IAdd(nums[n], nums[n - 1])))

\* The rules of solve_logic on the extracted list (lines 169-194).
NextTerm(nums) ==
    LET n == Len(nums)
        diffs == Diffs(nums)
        diff2 == Diffs(diffs)
        geo == GeometricRule(nums)
    IN  IF n < 3 THEN Answer(<<"0">>)
        ELSE IF IsFib(nums) THEN Answer(PyIntStr(IAdd(nums[n], nums[n - 1])))
        ELSE IF Cardinality(Range(diffs)) = 1
             THEN Answer(PyIntStr(IAdd(nums[n], diffs[1])))
        ELSE IF geo.exc = "OverflowError" THEN Raises("OverflowError")
        ELSE IF geo.exc = "none" THEN Answer(IntStr(Trunc(geo.val)))
        ELSE IF Len(diff2) >= 1 /\ Cardinality(Range(diff2)) = 1
             THEN Answer(PyIntStr(IAdd(nums[n], IAdd(diffs[n - 1], diff2[1]))))
        ELSE Answer(PyIntStr(IAdd(nums[n], nums[n - 1])))

\* def solve_logic(question)
solve_logic(question) == NextTerm(ExtractNums(question))

(***************************************************************************)
(* solve_word.                                                             *)
(***************************************************************************)
UpperChars ==
    <<"A", "B", "C", "D", "E", "F", "G", "H", "I", "J", "K", "L", "M", "N", "O", "P", "Q", "R", "S", "T", "U", "V", "W", "X", "Y", "Z">>
LowerChars ==
    <<"a", "b", "c", "d", "e", "f", "g", "h", "i", "j", "k", "l", "m", "n", "o", "p", "q", "r", "s", "t", "u", "v", "w", "x", "y", "z">>

IsUpper(c) == \E i \in 1..26 : UpperChars[i] = c
IsLower(c) == \E i \in 1..26 : LowerChars[i] = c
\* \w : a letter, a digit or an underscore.
IsWordChar(c) == IsUpper(c) \/ IsLower(c) \/ IsDigit(c) \/ c = "_"

\* s.upper()
Upper(s) ==
    [i \in 1..Len(s) |->
        IF IsLower(s[i]) THEN UpperChars[CHOOSE k \in 1..26 : LowerChars[k] = s[i]]
        ELSE s[i]]

\* The order of the characters (their code points): digits, upper-case
\* letters, the underscore, lower-case letters.
CharOrder == DigitChars \o UpperChars \o <<"_">> \o LowerChars
Ord(c) == CHOOSE i \in 1..Len(CharOrder) : CharOrder[i] = c

\* sorted(s)
RECURSIVE Sorted(_)
Sorted(s) ==
    IF s = <<>> THEN <<>>
    ELSE LET rest == Sorted(Tail(s))
             c == Head(s)
             before == {i \in 1..Len(rest) : Ord(rest[i]) < Ord(c)}
             k == Cardinality(before)
         IN  SubSeq(rest, 1, k) \o <<c>> \o SubSeq(rest, k + 1, Len(rest))

COMMON_WORDS == <<
    <<"C","R","Y","S","T","A","L">>,
    <<"H","A","R","M","O","N","Y">>,
    <<"M","Y","S","T","E","R","Y">>,
    <<"J","O","U","R","N","E","Y">>,
    <<"B","A","L","A","N","C","E">>,
    <<"P","E","R","F","E","C","T">>,
    <<"W","E","A","T","H","E","R">>,
    <<"R","A","I","N","B","O","W">>,
    <<"D","I","A","M","O","N","D">>,
    <<"S","C","I","E","N","C","E">>,
    <<"H","I","S","T","O","R","Y">>,
    <<"F","A","N","T","A","S","Y">>,
    <<"G","A","L","L","E","R","Y">>,
    <<"K","I","T","C","H","E","N">>,
    <<"O","R","G","A","N","I","C">>,
    <<"P","R","E","M","I","U","M">>,
    <<"R","E","A","L","I","T","Y">>,
    <<"T","H","E","R","A","P","Y">>,
    <<"V","I","C","T","O","R","Y">>,
    <<"W","E","S","T","E","R","N">>,
    <<"A","B","I","L","I","T","Y">>,
    <<"A","N","C","I","E","N","T">>,
    <<"B","I","L","L","I","O","N">>,
    <<"C","A","B","I","N","E","T">>,
    <<"C","A","P","T","A","I","N">>,
    <<"C","E","N","T","R","A","L">>,
    <<"C","H","A","P","T","E","R">>,
    <<"C","L","I","M","A","T","E">>,
    <<"C","O","L","L","E","G","E">>,
    <<"C","O","M","F","O","R","T">>,
    <<"C","O","M","P","A","N","Y">>,
    <<"C","O","N","C","E","P","T">>,
    <<"C","O","N","D","U","C","T">>,
    <<"C","O","N","F","I","R","M">>,
    <<"C","O","N","N","E","C","T">>,
    <<"C","O","N","T","E","N","T">>,
    <<"C","O","N","T","E","X","T">>,
    <<"C","O","N","T","R","O","L">>,
    <<"C","O","N","V","E","R","T">>,
    <<"C","O","R","R","E","C","T">>,
    <<"C","O","U","N","T","R","Y">>,
    <<"C","O","U","R","A","G","E">>,
    <<"C","U","L","T","U","R","E">>,
    <<"C","U","R","R","E","N","T">>,
    <<"D","E","C","I","M","A","L">>,
    <<"D","E","F","A","U","L","T">>,
    <<"D","E","F","E","N","S","E">>,
    <<"D","E","L","I","V","E","R">>,
    <<"D","I","G","I","T","A","L">>,
    <<"D","I","S","P","L","A","Y">>,
    <<"E","M","O","T","I","O","N">>,
    <<"E","V","E","N","I","N","G">>,
    <<"E","X","A","M","I","N","E">>,
    <<"E","X","A","M","P","L","E">>,
    <<"E","X","C","I","T","E","D">>,
    <<"E","X","P","L","A","I","N">>,
    <<"E","X","P","R","E","S","S">>,
    <<"E","X","T","R","E","M","E">>,
    <<"F","A","S","H","I","O","N">>,
    <<"F","E","A","T","U","R","E">>,
    <<"F","I","C","T","I","O","N">>,
    <<"F","I","N","A","N","C","E">>,
    <<"F","O","R","E","I","G","N">>,
    <<"F","O","R","M","U","L","A">>,
    <<"F","O","R","W","A","R","D">>,
    <<"F","R","E","E","D","O","M">>,
    <<"G","E","N","U","I","N","E">>,
    <<"G","R","A","P","H","I","C">>,
    <<"H","A","B","I","T","A","T">>,
    <<"H","E","A","L","I","N","G">>,
    <<"H","E","A","L","T","H","Y">>,
    <<"H","E","L","P","F","U","L">>,
    <<"H","O","L","I","D","A","Y">>,
    <<"I","M","A","G","I","N","E">>,
    <<"I","M","P","R","O","V","E">>,
    <<"I","N","I","T","I","A","L">>,
    <<"I","N","S","T","A","L","L">>,
    <<"J","U","S","T","I","C","E">>,
    <<"K","I","N","G","D","O","M">>,
    <<"L","E","A","D","I","N","G">>,
    <<"L","E","A","T","H","E","R">>,
    <<"L","I","B","R","A","R","Y">>,
    <<"L","I","M","I","T","E","D">>,
    <<"M","A","C","H","I","N","E">>,
    <<"M","A","S","S","I","V","E">>,
    <<"M","E","E","T","I","N","G">>,
    <<"M","I","N","E","R","A","L">>,
    <<"M","I","S","S","I","N","G">>,
    <<"M","O","N","S","T","E","R">>,
    <<"M","O","R","N","I","N","G">>,
    <<"M","U","S","I","C","A","L">>,
    <<"N","A","T","U","R","A","L">>,
    <<"N","E","T","W","O","R","K">>,
    <<"N","E","U","T","R","A","L">>,
    <<"N","O","T","H","I","N","G">>,
    <<"N","U","C","L","E","A","R">>,
    <<"O","P","I","N","I","O","N">>,
    <<"O","U","T","L","I","N","E">>,
    <<"O","U","T","S","I","D","E">>,
    <<"O","V","E","R","A","L","L">>,
    <<"P","A","C","K","A","G","E">>,
    <<"P","A","R","T","I","A","L">>,
    <<"P","A","R","T","N","E","R">>,
    <<"P","A","S","S","A","G","E">>,
    <<"P","A","S","S","I","V","E">>,
    <<"P","A","T","I","E","N","T">>,
    <<"P","A","T","T","E","R","N">>,
    <<"P","A","Y","M","E","N","T">>,
    <<"P","E","N","A","L","T","Y">>,
    <<"P","E","N","S","I","O","N">>,
    <<"P","L","A","S","T","I","C">>,
    <<"P","O","I","N","T","E","D">>,
    <<"P","O","P","U","L","A","R">>,
    <<"P","O","R","T","I","O","N">>,
    <<"P","R","I","M","A","R","Y">>,
    <<"P","R","I","N","T","E","R">>,
    <<"P","R","I","V","A","T","E">>,
    <<"P","R","O","B","L","E","M">>,
    <<"P","R","O","D","U","C","T">>,
    <<"P","R","O","G","R","A","M">>,
    <<"P","R","O","J","E","C","T">>,
    <<"P","R","O","M","I","S","E">>,
    <<"P","R","O","T","E","C","T">>,
    <<"P","R","O","T","E","I","N">>,
    <<"P","R","O","T","E","S","T">>,
    <<"P","U","R","P","O","S","E">>,
    <<"Q","U","A","L","I","F","Y">>,
    <<"Q","U","A","R","T","E","R">>,
    <<"R","A","D","I","C","A","L">>,
    <<"R","E","C","O","V","E","R">>,
    <<"R","E","G","U","L","A","R">>,
    <<"R","E","L","A","T","E","D">>,
    <<"R","E","L","E","A","S","E">>,
    <<"R","E","M","O","V","A","L">>,
    <<"R","E","P","L","A","C","E">>,
    <<"R","E","Q","U","I","R","E">>,
    <<"R","E","S","E","R","V","E">>,
    <<"R","E","S","O","L","V","E">>,
    <<"R","E","S","P","E","C","T">>,
    <<"R","E","S","T","O","R","E">>,
    <<"R","O","U","T","I","N","E">>,
    <<"R","U","N","N","I","N","G">>,
    <<"S","E","C","T","I","O","N">>,
    <<"S","H","E","L","T","E","R">>,
    <<"S","I","M","I","L","A","R">>,
    <<"S","O","C","I","E","T","Y">>,
    <<"S","O","M","E","O","N","E">>,
    <<"S","P","E","C","I","A","L">>,
    <<"S","T","A","T","I","O","N">>,
    <<"S","T","O","M","A","C","H">>,
    <<"S","T","O","R","A","G","E">>,
    <<"S","T","R","A","N","G","E">>,
    <<"S","T","U","D","E","N","T">>,
    <<"S","U","B","J","E","C","T">>,
    <<"S","U","M","M","A","R","Y">>,
    <<"S","U","P","P","O","R","T">>,
    <<"S","U","R","F","A","C","E">>,
    <<"S","U","R","G","E","R","Y">>,
    <<"S","U","R","V","I","V","E">>,
    <<"T","E","A","C","H","E","R">>,
    <<"T","H","E","A","T","R","E">>,
    <<"T","H","E","R","M","A","L">>,
    <<"T","H","O","U","G","H","T">>,
    <<"T","O","N","I","G","H","T">>,
    <<"T","O","U","R","I","S","M">>,
    <<"T","R","O","U","B","L","E">>,
    <<"T","U","R","N","I","N","G">>,
    <<"T","Y","P","I","C","A","L">>,
    <<"U","P","D","A","T","E","D">>,
    <<"U","T","I","L","I","T","Y">>,
    <<"V","A","R","I","E","T","Y">>,
    <<"V","E","H","I","C","L","E">>,
    <<"V","E","N","T","U","R","E">>,
    <<"V","E","R","S","I","O","N">>,
    <<"V","I","L","L","A","G","E">>,
    <<"V","I","O","L","E","N","T">>,
    <<"V","I","S","I","B","L","E">>,
    <<"W","A","R","N","I","N","G">>,
    <<"W","A","R","R","I","O","R">>,
    <<"W","E","B","S","I","T","E">>,
    <<"W","E","D","D","I","N","G">>,
    <<"W","E","E","K","E","N","D">>,
    <<"W","E","L","C","O","M","E">>,
    <<"W","E","L","F","A","R","E">>,
    <<"W","I","L","L","I","N","G">>,
    <<"W","I","N","N","I","N","G">>,
    <<"W","I","T","H","O","U","T">>,
    <<"W","I","T","N","E","S","S">>,
    <<"W","O","R","K","I","N","G">>,
    <<"W","R","I","T","I","N","G">>,
    <<"Y","O","U","N","G","E","R">>,
    <<"T","H","U","N","D","E","R">>,
    <<"H","U","N","D","R","E","D">>,
    <<"H","U","N","T","I","N","G">>,
    <<"H","U","S","B","A","N","D">>,
    <<"L","E","C","T","U","R","E">>,
    <<"M","A","R","T","I","A","L">>,
    <<"M","I","L","L","I","O","N">>,
    <<"O","B","S","C","U","R","E">>,
    <<"P","R","E","D","I","C","T">>,
    <<"Q","U","A","N","T","U","M">>,
    <<"R","E","B","U","I","L","D">>,
    <<"S","C","H","O","L","A","R">>,
    <<"W","O","R","S","H","I","P">>,
    <<"Z","E","A","L","O","U","S">>,
    <<"B","L","A","N","K","E","T">>,
    <<"B","R","O","W","S","E","R">>,
    <<"C","E","N","T","U","R","Y">>,
    <<"C","H","I","C","K","E","N">>,
    <<"C","O","M","P","L","E","X">>,
    <<"C","O","U","N","T","E","R">>,
    <<"D","O","L","P","H","I","N">>,
    <<"E","N","D","L","E","S","S">>,
    <<"F","I","F","T","E","E","N">>,
    <<"F","R","E","E","D","O","M">>,
    <<"G","O","R","I","L","L","A">>
>>

Unscramble == <<"U", "n", "s", "c", "r", "a", "m", "b", "l", "e">>
Unknown == <<"U", "N", "K", "N", "O", "W", "N">>

\* re.search(r'Unscramble.*?:\s*(\w+)', question): the leftmost
\* "Unscramble", then the first ':' on the same line that is followed,
\* after any whitespace, by a word character; the group is the run of word
\* characters there.
SearchUnscramble(question) ==
    LET After(i) == i + Len(Unscramble)
        WordStart(j) == RunEnd(question, j + 1, IsSpace) + 1
        Colons(i) ==
            {j \in After(i)..Len(question) :
                /\ question[j] = ":"
                /\ \A k \in After(i)..(j - 1) : question[k] # "\n"
                /\ WordStart(j) <= Len(question)
                /\ IsWordChar(question[WordStart(j)])}
        starts == {i \in 1..Len(question) :
                      LiteralAt(question, Unscramble, i) /\ Colons(i) # {}}
    IN  IF starts = {} THEN NoMatch
        ELSE LET j == SetMin(Colons(SetMin(starts))) IN
             Match(SubSeq(question, WordStart(j),
                          RunEnd(question, WordStart(j), IsWordChar)))

\* sorted(word) for every word of COMMON_WORDS.
SortedWords == [i \in 1..Len(COMMON_WORDS) |-> Sorted(COMMON_WORDS[i])]

\* The for loop of solve_word comparing the sets of letters, not the sorted
\* letters.
FirstAnagram_letter_set(scrambled) ==
    LET letters == {scrambled[k] : k \in 1..Len(scrambled)}
        hits == {i \in 1..Len(COMMON_WORDS) :
                    /\ Len(COMMON_WORDS[i]) = Len(scrambled)
                    /\ {COMMON_WORDS[i][k] : k \in 1..Len(COMMON_WORDS[i])} = letters}
    IN  IF hits = {} THEN Unknown ELSE COMMON_WORDS[SetMin(hits)]

\* The for loop of solve_word: the first entry of COMMON_WORDS that has the
\* length and the sorted letters of scrambled, "UNKNOWN" when there is none.
FirstAnagram(scrambled) ==
    LET scrambled_sorted == Sorted(scrambled)
        hits == {i \in 1..Len(COMMON_WORDS) :
                    /\ Len(COMMON_WORDS[i]) = Len(scrambled)
                    /\ SortedWords[i] = scrambled_sorted}
    IN  IF hits = {} THEN Unknown ELSE COMMON_WORDS[SetMin(hits)]

\* def solve_word(question)
solve_word(question) ==
    LET match == SearchUnscramble(question) IN
    IF match.found THEN Answer(FirstAnagram(Upper(match.group)))
    ELSE Answer(Unknown)

(***************************************************************************)
(* solve_trivia and solve_puzzle.  A dict is a function on the keys it     *)
(* holds; an option is a dict or a bare string.                            *)
(***************************************************************************)
\* d.get(key, default)
Get(d, key, default) == IF key \in DOMAIN d THEN d[key] ELSE default

DictOption(d) == [isdict |-> TRUE, dict |-> d, bare |-> <<>>]
BareOption(text) == [isdict |-> FALSE, dict |-> <<>>, bare |-> text]

\* def solve_trivia(puzzle)
solve_trivia(p) ==
    LET options == Get(p, "options", <<>>) IN
    IF Len(options) > 0 THEN
        IF options[1].isdict
        THEN Answer(Get(options[1].dict, "id", Get(options[1].dict, "text", <<"A">>)))
        ELSE Answer(options[1].bare)
    ELSE Answer(<<"A">>)

\* solve_puzzle with solve_trivia as the default for an unknown category.
solve_puzzle_default_trivia(p) ==
    LET game_type == Get(p, "game_type", "")
        question == Get(p, "question", <<>>)
    IN  IF game_type = "math"
        THEN [ans |-> solve_math(question), calls |-> <<"solve_math">>]
        ELSE IF game_type = "word"
        THEN [ans |-> solve_word(question), calls |-> <<"solve_word">>]
        ELSE IF game_type = "logic"
        THEN [ans |-> solve_logic(question), calls |-> <<"solve_logic">>]
        ELSE [ans |-> solve_trivia(p), calls |-> <<"solve_trivia">>]

\* def solve_puzzle(puzzle): the answer and the solvers it called.
solve_puzzle(p) ==
    LET game_type == Get(p, "game_type", "")
        question == Get(p, "question", <<>>)
    IN  IF game_type = "math"
        THEN [ans |-> solve_math(question), calls |-> <<"solve_math">>]
        ELSE IF game_type = "word"
        THEN [ans |-> solve_word(question), calls |-> <<"solve_word">>]
        ELSE IF game_type = "logic"
        THEN [ans |-> solve_logic(question), calls |-> <<"solve_logic">>]
        ELSE IF game_type = "trivia"
        THEN [ans |-> solve_trivia(p), calls |-> <<"solve_trivia">>]
        ELSE [ans |-> Answer(<<"4", "2">>), calls |-> <<>>]

\* answer = solve_puzzle(puzzle)  (line 249)
SolvePuzzle ==
    /\ pc = "ready"
    /\ answer' = solve_puzzle(puzzle).ans
    /\ called' = solve_puzzle(puzzle).calls
    /\ pc' = "done"
    /\ UNCHANGED <<puzzle, tokens, parsed, webvars>>

(***************************************************************************)
(* Math questions: "What is <body>?", with or without the leading phrase   *)
(* and the closing question mark, <body> any text over MathChars.          *)
(***************************************************************************)
MathChars == {"0", "2", "+", "-", "/", "(", ")", " ", ".", "x", "?", "×"}

\* The questions made of the text body.
MathQuestions(body) ==
    {WhatIs \o body \o <<"?">>, WhatIs \o body, body \o <<"?">>}

InitMath ==
    /\ \E k \in 0..MaxExprLen :
          \E body \in [1..k -> MathChars] :
             \E q \in MathQuestions(body) :
                puzzle = [game_type |-> "math", question |-> q]
    /\ answer = NoAnswer
    /\ called = <<>>
    /\ tokens = <<>>
    /\ parsed = NoParse
    /\ pc = "ready"
    /\ NoWebhook

SpecMath == InitMath /\ [][SolvePuzzle]_vars

(***************************************************************************)
(* Logic questions: "What comes next? n1, n2, ..." with or without a       *)
(* closing ", ?".                                                          *)
(***************************************************************************)
RECURSIVE JoinNums(_)
JoinNums(ns) ==
    IF ns = <<>> THEN <<>>
    ELSE IF Len(ns) = 1 THEN NatStr(ns[1])
    ELSE NatStr(ns[1]) \o <<",", " ">> \o JoinNums(Tail(ns))

\* The questions that list the numbers ns.
LogicQuestions(ns) ==
    {WhatComesNext \o <<" ">> \o JoinNums(ns) \o end :
        end \in {<<>>, <<",", " ", "?">>}}

InitLogic ==
    /\ \E k \in 0..MaxSeqLen :
          \E ns \in [1..k -> 0..MaxNum] :
             \E q \in LogicQuestions(ns) :
                puzzle = [game_type |-> "logic", question |-> q]
    /\ answer = NoAnswer
    /\ called = <<>>
    /\ tokens = <<>>
    /\ parsed = NoParse
    /\ pc = "ready"
    /\ NoWebhook

SpecLogic == InitLogic /\ [][SolvePuzzle]_vars

(***************************************************************************)
(* Word questions: a phrase followed by a scrambled string, which is a     *)
(* dictionary word rearranged, in either case, or a near miss of one.      *)
(***************************************************************************)
Reverse(s) == [i \in 1..Len(s) |-> s[Len(s) + 1 - i]]
Rotate(s, k) == [i \in 1..Len(s) |-> s[((i + k - 1) % Len(s)) + 1]]
Lower(s) ==
    [i \in 1..Len(s) |->
        IF IsUpper(s[i]) THEN LowerChars[CHOOSE k \in 1..26 : UpperChars[k] = s[i]]
        ELSE s[i]]

Scrambles(w) ==
    {Rotate(w, k) : k \in 1..MaxRot}
    \cup {Reverse(w), Lower(Reverse(w)),
          <<w[2]>> \o Tail(w),      \* one letter replaced by another of the word
          Tail(w),                  \* one letter short
          w \o <<w[1]>>}            \* one letter more

WordPhrases ==
    {Unscramble \o <<":", " ">>,
     Unscramble \o <<" ", "t", "h", "i", "s", ":", " ", "a", ":", " ">>,
     Unscramble \o <<" ">>}

WordQuestions ==
    {phrase \o sc :
        phrase \in WordPhrases,
        sc \in UNION {Scrambles(COMMON_WORDS[i]) : i \in 1..Len(COMMON_WORDS)}
               \cup {<<"T", "S", "C", "Y", "R", "L", "A">>, <<"Z", "Z", "Z">>, <<>>}}

InitWord ==
    /\ puzzle \in {[game_type |-> "word", question |-> q] : q \in WordQuestions}
    /\ answer = NoAnswer
    /\ called = <<>>
    /\ tokens = <<>>
    /\ parsed = NoParse
    /\ pc = "ready"
    /\ NoWebhook

SpecWord == InitWord /\ [][SolvePuzzle]_vars

(***************************************************************************)
(* Puzzles of every category, with and without each of the keys.           *)
(***************************************************************************)
\* The digits of 10^BigDigits.
HugeDigits == <<"1">> \o Repeat("0", BigDigits)

SampleQuestions ==
    {WhatIs \o <<"2", " ", "+", " ", "3", " ", "*", " ", "4", "?">>,
     WhatIs \o <<"5", " ", "/", " ", "0", "?">>,
     WhatIs \o <<"2", " ", "+", "?">>,
     Unscramble \o <<":", " ", "T", "S", "C", "Y", "R", "L", "A">>,
     WhatComesNext \o <<" ", "1", ",", " ", "2", ",", " ", "3">>,
     WhatComesNext \o <<" ", "1", ",", " ">> \o HugeDigits \o <<",", " ", "5">>,
     WhatComesNext \o <<" ">> \o HugeDigits \o <<",", " ", "0", ",", " ", "5">>,
     WhatComesNext \o <<" ">> \o HugeDigits \o <<",", " ", "2", ",", " ", "0">>,
     <<>>}

SampleOptions ==
    {<<>>,
     <<DictOption([id |-> <<"B">>, text |-> <<"P", "a", "r", "i", "s">>])>>,
     <<DictOption([text |-> <<"R", "o", "m", "e">>]),
       DictOption([id |-> <<"B">>, text |-> <<"P", "a", "r", "i", "s">>])>>,
     <<DictOption(<<>>)>>,
     <<BareOption(<<"C">>)>>}

GameTypes == {"math", "word", "logic", "trivia", "geography", "Math", ""}

Puzzles ==
    {[game_type |-> g, question |-> q, options |-> o] :
        g \in GameTypes, q \in SampleQuestions, o \in SampleOptions}
    \cup {[game_type |-> g, question |-> q] : g \in GameTypes, q \in SampleQuestions}
    \cup {[game_type |-> g, options |-> o] : g \in GameTypes, o \in SampleOptions}
    \cup {[question |-> q, options |-> o] : q \in SampleQuestions, o \in SampleOptions}

Init ==
    /\ puzzle \in Puzzles
    /\ answer = NoAnswer
    /\ called = <<>>
    /\ tokens = <<>>
    /\ parsed = NoParse
    /\ pc = "ready"
    /\ NoWebhook

Next == SolvePuzzle

Spec == Init /\ [][Next]_vars

(***************************************************************************)
(* Properties of the solvers.                                              *)
(***************************************************************************)
GameType == Get(puzzle, "game_type", "")
Question == Get(puzzle, "question", <<>>)

\* C1: solve_puzzle returns a string for every puzzle and never raises.
C1_NeverRaises == pc = "done" => answer.exc = "none"

\* The question holds "What is <expr>?" with <expr> a well-formed expression
\* in which the right operand of some '/' evaluates to zero.
AsksDivisionByZero(question) ==
    LET match == SearchWhatIs(question)
        expr == Replace(Replace(Strip(match.group), "×", "*"), "÷", "/")
        toks == _tokenize(expr)
    IN  /\ match.found
        /\ SafeChars(expr)
        /\ toks.exc = "none"
        /\ WellFormed(toks.val)
        /\ ~InfixValue(toks.val).def

\* C3 as stated: a division by zero takes no error path; the question is
\* answered from the value of the division, not through the except clause.
C3_DivisionByZeroYieldsValue ==
    (pc = "done" /\ GameType = "math" /\ AsksDivisionByZero(Question))
    => answer.caught = "none"

\* C3 amended: a division by zero raises ZeroDivisionError in the evaluator,
\* which solve_math catches: the question is answered with the fallback "0".
C3_DivisionByZeroFallsBack ==
    (pc = "done" /\ GameType = "math" /\ AsksDivisionByZero(Question))
    => answer = Fallback(<<"0">>, "ZeroDivisionError")

\* Witness of C3: "What is 2/0?" has been answered "0" through the except clause.
C3_Witness ==
    /\ pc = "done"
    /\ Question = WhatIs \o <<"2", "/", "0", "?">>
    /\ answer = Fallback(<<"0">>, "ZeroDivisionError")

\* The list solve_logic extracted, as integers.
LogicNums ==
    LET nums == ExtractNums(Question) IN [i \in 1..Len(nums) |-> nums[i][2]]

FibLike(xs) == \A i \in 3..Len(xs) : xs[i] = xs[i - 1] + xs[i - 2]
Arithmetic(xs) == \A i \in 2..Len(xs) : xs[i] - xs[i - 1] = xs[2] - xs[1]
Geometric(xs) ==
    /\ \A i \in 1..(Len(xs) - 1) : xs[i] # 0
    /\ \A i \in 2..Len(xs) : xs[i] * xs[1] = xs[2] * xs[i - 1]
SecondOrder(xs) ==
    \A i \in 3..Len(xs) :
        (xs[i] - xs[i - 1]) - (xs[i - 1] - xs[i - 2])
            = (xs[3] - xs[2]) - (xs[2] - xs[1])

\* C4: solve_logic answers by the first rule that matches, in the order
\* Fibonacci-like, arithmetic, geometric, second-order, fallback: a list that
\* is Fibonacci-like yields last + second-to-last even when it is arithmetic
\* or has constant second differences as well.
C4_FirstRuleWins ==
    (pc = "done" /\ GameType = "logic" /\ Len(LogicNums) >= 3)
    => LET xs == LogicNums
           n == Len(xs)
       IN  answer = Answer(IntStr(
               IF FibLike(xs) THEN xs[n] + xs[n - 1]
               ELSE IF Arithmetic(xs) THEN xs[n] + (xs[2] - xs[1])
               ELSE IF Geometric(xs) THEN (xs[n] * xs[2]) \div xs[1]
               ELSE IF SecondOrder(xs)
                    THEN xs[n] + (xs[n] - xs[n - 1]) + ((xs[3] - xs[2]) - (xs[2] - xs[1]))
               ELSE xs[n] + xs[n - 1]))

\* Witness of C4: a list that is Fibonacci-like and arithmetic, for which the
\* two rules differ, has been answered with the Fibonacci value.
C4_Witness ==
    /\ pc = "done" /\ GameType = "logic" /\ Len(LogicNums) >= 3
    /\ FibLike(LogicNums) /\ Arithmetic(LogicNums)
    /\ LogicNums[2] - LogicNums[1] # LogicNums[Len(LogicNums) - 1]
    /\ answer.val = IntStr(LogicNums[Len(LogicNums)] + LogicNums[Len(LogicNums) - 1])

\* How often the character c stands in s.
Count(s, c) == Cardinality({i \in 1..Len(s) : s[i] = c})
SameLetters(a, b) ==
    /\ Len(a) = Len(b)
    /\ \A i \in 1..Len(a) : Count(a, a[i]) = Count(b, a[i])

\* The dictionary entries that are rearrangements of upper(s).
Anagrams(s) ==
    {i \in 1..Len(COMMON_WORDS) : SameLetters(COMMON_WORDS[i], Upper(s))}

\* C5: solve_word returns the first dictionary entry that has the length and
\* the letters of the upper-cased scrambled string, and "UNKNOWN" when there
\* is none or when the question holds no "Unscramble ...: <word>".
C5_FirstAnagramOrUnknown ==
    (pc = "done" /\ GameType = "word")
    => LET match == SearchUnscramble(Question) IN
       /\ answer.exc = "none"
       /\ answer.val =
              IF match.found /\ Anagrams(match.group) # {}
              THEN COMMON_WORDS[SetMin(Anagrams(match.group))]
              ELSE Unknown

\* Witness of C5: "Unscramble: TSCYRLA" has been answered "CRYSTAL".
C5_Witness ==
    /\ pc = "done"
    /\ Question = Unscramble \o <<":", " ", "T", "S", "C", "Y", "R", "L", "A">>
    /\ answer.val = <<"C", "R", "Y", "S", "T", "A", "L">>

\* C6: solve_puzzle calls the one solver its category names, with the
\* question (the puzzle, for trivia), and returns what that solver returns;
\* for any other category, a missing one included, it calls no solver and
\* returns "42".
C6_RoutesOnCategory ==
    pc = "done"
    => /\ GameType = "math"
          => called = <<"solve_math">> /\ answer = solve_math(Question)
       /\ GameType = "word"
          => called = <<"solve_word">> /\ answer = solve_word(Question)
       /\ GameType = "logic"
          => called = <<"solve_logic">> /\ answer = solve_logic(Question)
       /\ GameType = "trivia"
          => called = <<"solve_trivia">> /\ answer = solve_trivia(puzzle)
       /\ GameType \notin {"math", "word", "logic", "trivia"}
          => called = <<>> /\ answer = Answer(<<"4", "2">>)

\* Witness of C6: a puzzle of an unknown category that holds a math question
\* and options has been answered "42".
C6_Witness ==
    /\ pc = "done"
    /\ GameType = "geography"
    /\ Question = WhatIs \o <<"2", " ", "+", " ", "3", " ", "*", " ", "4", "?">>
    /\ Len(Get(puzzle, "options", <<>>)) > 0
    /\ called = <<>>
    /\ answer.val = <<"4", "2">>

(***************************************************************************)
(* The webhook agent (examples/python-webhook/agent.py).  A digest is kept *)
(* symbolic: HMAC-SHA256 of a message under a key is the pair of the two,  *)
(* so that two digests are equal exactly when key and message are.  A      *)
(* header value that is a signature is a record of its prefix and digest;  *)
(* ascii tells whether the text holds ASCII characters only.               *)
(***************************************************************************)
MAX_TIMESTAMP_DRIFT_MS == 5 * 60 * 1000

HmacSha256(key, msg) == [key |-> key, msg |-> msg]
NoDigest == [key |-> <<>>, msg |-> [kind |-> "none"]]
SigText(prefix, hex, ascii) == [prefix |-> prefix, hex |-> hex, ascii |-> ascii]

Result(v) == [exc |-> "none", val |-> v]
Throw(e) == [exc |-> e, val |-> FALSE]

\* hmac.compare_digest(a, b) for two str: TypeError unless both are ASCII.
compare_digest(a, b) ==
    IF ~a.ascii \/ ~b.ascii THEN Throw("TypeError") ELSE Result(a = b)

\* def verify_signature(body, signature, secret)
verify_signature(body, signature, secret) ==
    LET expected == SigText("sha256=", HmacSha256(secret, body), TRUE)
    IN  compare_digest(signature, expected)

\* def check_replay(timestamp_ms), with now_ms the clock it reads
check_replay(timestamp_ms, now) ==
    Abs(now - timestamp_ms) <= MAX_TIMESTAMP_DRIFT_MS

\* Whether s is digits in groups separated by single underscores.
IsIntLiteral(s) ==
    /\ Len(s) > 0
    /\ \A i \in 1..Len(s) : IsDigit(s[i]) \/ s[i] = "_"
    /\ s[1] # "_" /\ s[Len(s)] # "_"
    /\ \A i \in 1..(Len(s) - 1) : ~(s[i] = "_" /\ s[i + 1] = "_")

NotUnderscore(c) == c # "_"

\* int(text): white space around, an optional sign, then the digits;
\* ValueError for anything else.
PyInt(text) ==
    LET t == Strip(text)
        signed == Len(t) > 0 /\ t[1] \in {"+", "-"}
        digits == IF signed THEN Tail(t) ELSE t
    IN  IF ~IsIntLiteral(digits) THEN Throw("ValueError")
        ELSE LET n == DecVal(SelectSeq(digits, NotUnderscore))
             IN  Result(IF signed /\ t[1] = "-" THEN -n ELSE n)

\* sub in s
Contains(s, sub) == \E i \in 1..(Len(s) + 1) : LiteralAt(s, sub, i)

\* s.split(): the maximal runs of characters that are not white space.
Split(s) ==
    LET starts == {i \in 1..Len(s) :
                      ~IsSpace(s[i]) /\ (i = 1 \/ IsSpace(s[i - 1]))}
        EndOf(i) == SetMin({j \in i..Len(s) : j = Len(s) \/ IsSpace(s[j + 1])})
        RECURSIVE From(_)
        From(S) == IF S = {} THEN <<>>
                   ELSE LET i == SetMin(S)
                        IN  <<SubSeq(s, i, EndOf(i))>> \o From(S \ {i})
    IN  From(starts)

\* s.rstrip(chars)
RStrip(s, chars) ==
    LET keep == {i \in 1..Len(s) : s[i] \notin chars} IN
    IF keep = {} THEN <<>> ELSE SubSeq(s, 1, SetMax(keep))

Http == <<"h", "t", "t", "p">>
Button == <<"b", "u", "t", "t", "o", "n">>
Submit == <<"s", "u", "b", "m", "i", "t">>

\* What decide_actions returns: the one action, the done flag and the result.
Decision(tool, args, done, result) ==
    [actions |-> <<[tool |-> tool, args |-> args]>>, done |-> done, result |-> result]

\* def decide_actions(payload)
decide_actions(payload) ==
    LET page == Get(payload, "pageState", <<>>)
        task == Get(payload, "task", <<>>)
        turn == Get(payload, "turnNumber", 1)
        tree == Get(page, "accessibilityTree", <<>>)
        task_prompt == Get(task, "taskPrompt", <<>>)
        words == Split(task_prompt)
        urls == {i \in 1..Len(words) : LiteralAt(words[i], Http, 1)}
    IN  IF turn = 1 /\ Contains(task_prompt, Http) /\ urls # {}
        THEN Decision("navigate",
                      [url |-> RStrip(words[SetMin(urls)], {".", ",", ";"})],
                      FALSE, "")
        ELSE IF Contains(Lower(tree), Button) /\ Contains(Lower(tree), Submit)
        THEN Decision("click", [element |-> "Submit"], FALSE, "")
        ELSE IF turn >= 10
        THEN Decision("done",
                      [success |-> TRUE, result |-> "Completed after 10 turns"],
                      TRUE, "Task completed")
        ELSE Decision("scroll", [direction |-> "down", amount |-> 500], FALSE, "")

\* A request body: the JSON text of an object (the payload), the JSON text
\* of an array, or text that is not JSON.
ObjectBody(payload) == [kind |-> "object", payload |-> payload]
ArrayBody == [kind |-> "array", payload |-> <<>>]
MalformedBody == [kind |-> "malformed", payload |-> <<>>]

\* json.loads(body)
json_loads(body) ==
    IF body.kind = "malformed" THEN Throw("JSONDecodeError") ELSE Result(body)

Responds(status, body, calls) ==
    [res |-> [exc |-> "none", status |-> status, body |-> body], calls |-> calls]
\* An exception that leaves the view function: Flask answers 500.
Fails(e, calls) ==
    [res |-> [exc |-> e, status |-> 500, body |-> <<>>], calls |-> calls]

\* Step 2 and on of webhook(): the replay check, the parse, the decision.
webhook_replay(req, now, calls) ==
    LET timestamp_str == Get(req.headers, "X-AI-Olympics-Timestamp", <<"0">>)
        timestamp_ms == PyInt(timestamp_str)
        loaded == json_loads(req.body)
    IN  IF timestamp_ms.exc # "none" THEN Fails(timestamp_ms.exc, calls \o <<"int">>)
        ELSE IF ~check_replay(timestamp_ms.val, now)
        THEN Responds(401, [error |-> "Request expired"],
                      calls \o <<"int", "check_replay">>)
        ELSE IF loaded.exc # "none"
        THEN Fails(loaded.exc, calls \o <<"int", "check_replay", "json.loads">>)
        ELSE IF loaded.val.kind # "object"
        THEN Fails("AttributeError", calls \o <<"int", "check_replay", "json.loads">>)
        ELSE Responds(200, decide_actions(loaded.val.payload),
                      calls \o <<"int", "check_replay", "json.loads", "decide_actions">>)

\* def webhook(), for the request req, the secret and the clock
webhook(req, secret, now) ==
    LET signature == Get(req.headers, "X-AI-Olympics-Signature",
                         SigText("", NoDigest, TRUE))
        verified == verify_signature(req.body, signature, secret)
    IN  IF secret = <<>> THEN webhook_replay(req, now, <<>>)
        ELSE IF verified.exc # "none" THEN Fails(verified.exc, <<"verify_signature">>)
        ELSE IF ~verified.val
        THEN Responds(401, [error |-> "Invalid signature"], <<"verify_signature">>)
        ELSE webhook_replay(req, now, <<"verify_signature">>)

\* POST /webhook
Webhook ==
    /\ pc = "ready"
    /\ response' = webhook(request, WEBHOOK_SECRET, now_ms).res
    /\ called' = webhook(request, WEBHOOK_SECRET, now_ms).calls
    /\ pc' = "done"
    /\ UNCHANGED <<puzzle, answer, tokens, parsed, WEBHOOK_SECRET, now_ms, request>>

(***************************************************************************)
(* Requests: payloads of turns 1..MaxTurn with and without each key,       *)
(* signatures made with the right and a wrong key, of this and another     *)
(* body, with and without the prefix, not ASCII, or absent; timestamps     *)
(* around the two edges of the window, not numbers, or absent.             *)
(***************************************************************************)
MaxTurn == 11

Secret == <<"s", "3", "c", "r", "e", "t">>
OtherSecret == <<"o", "t", "h", "e", "r">>
Clocks == {1000000}

Trees ==
    {<<>>, <<"[", "b", "u", "t", "t", "o", "n", "]", " ", "S", "u", "b", "m", "i", "t">>, <<"[", "B", "U", "T", "T", "O", "N", "]", " ", "S", "e", "n", "d">>, <<"[", "l", "i", "n", "k", "]", " ", "s", "u", "b", "m", "i", "t", " ", "f", "o", "r", "m">>}
Prompts ==
    {<<>>, <<"G", "o", " ", "t", "o", " ", "h", "t", "t", "p", ":", "/", "/", "a", ".", "b", "/", "c", ".">>, <<"s", "e", "e", " ", "(", "h", "t", "t", "p", ":", "/", "/", "a", ".", "b", ")">>}

Payloads ==
    {[turnNumber |-> t, pageState |-> [accessibilityTree |-> tr],
      task |-> [taskPrompt |-> tp]] :
        t \in 1..MaxTurn, tr \in Trees, tp \in Prompts}
    \cup {[pageState |-> [accessibilityTree |-> tr], task |-> [taskPrompt |-> tp]] :
             tr \in Trees, tp \in Prompts}
    \cup {[turnNumber |-> t] : t \in 1..MaxTurn}

Bodies == {ObjectBody(p) : p \in Payloads} \cup {ArrayBody, MalformedBody}

Signatures(body) ==
    {SigText("sha256=", HmacSha256(Secret, body), TRUE),
     SigText("sha256=", HmacSha256(OtherSecret, body), TRUE),
     SigText("sha256=", HmacSha256(Secret, MalformedBody), TRUE),
     SigText("", HmacSha256(Secret, body), TRUE),
     SigText("sha256=", HmacSha256(Secret, body), FALSE)}

Timestamps(now) ==
    {IntStr(now + d) :
        d \in {0, MAX_TIMESTAMP_DRIFT_MS, MAX_TIMESTAMP_DRIFT_MS + 1,
               -MAX_TIMESTAMP_DRIFT_MS, -MAX_TIMESTAMP_DRIFT_MS - 1, -2 * now}}
    \cup {<<>>, <<"a", "b", "c">>, <<" ", "1", "0", "0", "0", "0", "0", "0", " ">>, <<"1", "_", "0", "0", "0", "_", "0", "0", "0">>, <<"+", "1", "0", "0", "0", "0", "0", "0">>, <<"1", "0", "0", "0", "0", "0", "0", ".", "0">>}

HeadersFor(body, now) ==
    UNION {
        {[x \in {"X-AI-Olympics-Signature", "X-AI-Olympics-Timestamp"} |->
             IF x = "X-AI-Olympics-Signature" THEN sig ELSE ts],
         [x \in {"X-AI-Olympics-Timestamp"} |-> ts],
         [x \in {"X-AI-Olympics-Signature"} |-> sig]} :
           sig \in Signatures(body), ts \in Timestamps(now)}

Requests(now) ==
    UNION {{[body |-> b, headers |-> h] : h \in HeadersFor(b, now)} : b \in Bodies}

InitWebhook ==
    /\ WEBHOOK_SECRET \in {<<>>, Secret}
    /\ now_ms \in Clocks
    /\ request \in Requests(now_ms)
    /\ response = NoResponse
    /\ called = <<>>
    /\ puzzle = NoPuzzle
    /\ answer = NoAnswer
    /\ tokens = <<>>
    /\ parsed = NoParse
    /\ pc = "ready"

SpecWebhook == InitWebhook /\ [][Webhook]_vars

(***************************************************************************)
(* Properties of the webhook agent.                                        *)
(***************************************************************************)
SignatureHeader ==
    Get(request.headers, "X-AI-Olympics-Signature", SigText("", NoDigest, TRUE))
TimestampHeader == Get(request.headers, "X-AI-Olympics-Timestamp", <<"0">>)

\* Gate 1: no secret is set, or the header is "sha256=" + HMAC-SHA256(secret, body).
PassesSignature ==
    \/ WEBHOOK_SECRET = <<>>
    \/ SignatureHeader = SigText("sha256=", HmacSha256(WEBHOOK_SECRET, request.body), TRUE)

\* Gate 2: the header is an integer within 5 minutes of the clock.
PassesTimestamp ==
    /\ PyInt(TimestampHeader).exc = "none"
    /\ PyInt(TimestampHeader).val >= now_ms - MAX_TIMESTAMP_DRIFT_MS
    /\ PyInt(TimestampHeader).val <= now_ms + MAX_TIMESTAMP_DRIFT_MS

\* C7: the payload is parsed, decide_actions invoked and 200 returned only
\* for a request that passes both gates; a request that fails a gate is
\* answered 401 and its payload is never parsed.
C7_GatesGuardHandler ==
    pc = "done"
    => /\ (\/ response.status = 200
           \/ \E i \in 1..Len(called) : called[i] \in {"json.loads", "decide_actions"})
          => (PassesSignature /\ PassesTimestamp)
       /\ ~(PassesSignature /\ PassesTimestamp)
          => (response.exc = "none" /\ response.status = 401)

\* C8: decide_actions answers done = true with the "done" tool for every
\* payload of turn 10 or later, and done = false for every earlier turn.
C8_DoneAtTurnLimit ==
    (pc = "done" /\ response.status = 200)
    => LET turn == Get(request.body.payload, "turnNumber", 1) IN
       /\ turn >= 10
          => (response.body.done /\ response.body.actions[1].tool = "done")
       /\ turn < 10 => ~response.body.done

====
